---------------------------- MODULE Spec2Model ----------------------------
(***************************************************************************)
(* youtube_transcript_fetcher.py: the URL-to-identifier helper, the two    *)
(* transcript providers with their fallback, the three format writers and  *)
(* main(), the orchestrator that sequences them.                           *)
(*                                                                         *)
(* Text (URLs, segment texts, file contents) is a sequence of one-         *)
(* character strings.  Times are Python floats restricted to multiples of  *)
(* 0.1 s and held as a whole number of tenths of a second.                 *)
(***************************************************************************)
EXTENDS Integers, Sequences, FiniteSets, TLC

VARIABLES
  pc,              \* position of main(): AwaitingUrl, AwaitingFilename, Fetching, ...
  url,             \* main: url (after .strip())
  vid,             \* main: vid
  filename,        \* main: filename (after .strip())
  langs,           \* main: langs = [args.lang]; fetch_with_pytube: languages
  primary,         \* what fetch_with_yta returned (the left operand of `or`)
  captions,        \* fetch_with_pytube: yt.captions, the video's caption tracks by code
  transcript,      \* main: transcript
  transcript_list, \* main: transcript_list
  success_count,   \* main: success_count
  files,           \* the three output files, by extension
  given,           \* the argument each writer was handed, by extension
  calls,           \* the prompts, provider calls and writer calls made, in order
  probes,          \* the caption codes fetch_with_pytube looked up, in order
  stdout,          \* the outcome messages main() printed, in order
  exit_status      \* the process's exit status once it has ended

vars == <<pc, url, vid, filename, langs, primary, captions, transcript,
          transcript_list, success_count, files, given, calls, probes, stdout, exit_status>>

-----------------------------------------------------------------------------
(* Characters and strings *)

\* The ASCII characters, in code order from 0 (NUL) to 127 (DEL).  A character
\* that a string cannot hold here is written by its code point: "U+0008" is
\* the backspace, "U+0060" the grave accent.
Ascii ==
  <<
    "U+0000", "U+0001", "U+0002", "U+0003", "U+0004", "U+0005", "U+0006", "U+0007",
    "U+0008", "\t", "\n", "U+000B", "\f", "\r", "U+000E", "U+000F",
    "U+0010", "U+0011", "U+0012", "U+0013", "U+0014", "U+0015", "U+0016", "U+0017",
    "U+0018", "U+0019", "U+001A", "U+001B", "U+001C", "U+001D", "U+001E", "U+001F",
    " ", "!", "\"", "#", "$", "%", "&", "'",
    "(", ")", "*", "+", ",", "-", ".", "/",
    "0", "1", "2", "3", "4", "5", "6", "7",
    "8", "9", ":", ";", "<", "=", ">", "?",
    "@", "A", "B", "C", "D", "E", "F", "G",
    "H", "I", "J", "K", "L", "M", "N", "O",
    "P", "Q", "R", "S", "T", "U", "V", "W",
    "X", "Y", "Z", "[", "\\", "]", "^", "_",
    "U+0060", "a", "b", "c", "d", "e", "f", "g",
    "h", "i", "j", "k", "l", "m", "n", "o",
    "p", "q", "r", "s", "t", "u", "v", "w",
    "x", "y", "z", "{", "|", "}", "~", "U+007F"
  >>

AsciiChars == {Ascii[i] : i \in 1..Len(Ascii)}
IsAscii(c) == c \in AsciiChars

\* The characters outside ASCII that str.isspace() holds, with their code points.
UnicodeSpaces ==
  ("U+0085" :> 133) @@
  ("U+00A0" :> 160) @@
  ("U+1680" :> 5760) @@
  ("U+2000" :> 8192) @@
  ("U+2001" :> 8193) @@
  ("U+2002" :> 8194) @@
  ("U+2003" :> 8195) @@
  ("U+2004" :> 8196) @@
  ("U+2005" :> 8197) @@
  ("U+2006" :> 8198) @@
  ("U+2007" :> 8199) @@
  ("U+2008" :> 8200) @@
  ("U+2009" :> 8201) @@
  ("U+200A" :> 8202) @@
  ("U+2028" :> 8232) @@
  ("U+2029" :> 8233) @@
  ("U+202F" :> 8239) @@
  ("U+205F" :> 8287) @@
  ("U+3000" :> 12288)

\* The characters whose NFKC normal form holds one of "/", "?", "#", "@", ":"
\* (U+FF0F, the fullwidth solidus, becomes "/"; U+2100 becomes "a/c"), with
\* their code points.
NfkcDelimiters ==
  ("U+2047" :> 8263) @@ ("U+2048" :> 8264) @@ ("U+2049" :> 8265) @@ ("U+2100" :> 8448) @@
  ("U+2101" :> 8449) @@ ("U+2105" :> 8453) @@ ("U+2106" :> 8454) @@ ("U+2A74" :> 10868) @@
  ("U+FE13" :> 65043) @@ ("U+FE16" :> 65046) @@ ("U+FE55" :> 65109) @@ ("U+FE56" :> 65110) @@
  ("U+FE5F" :> 65119) @@ ("U+FE6B" :> 65131) @@ ("U+FF03" :> 65283) @@ ("U+FF0F" :> 65295) @@
  ("U+FF1A" :> 65306) @@ ("U+FF1F" :> 65311) @@ ("U+FF20" :> 65312)

\* The characters outside ASCII that str.lower() changes into ASCII: the Kelvin
\* sign becomes "k", the dotted capital I becomes "i" and U+0307.
Kelvin == "U+212A"
DottedI == "U+0130"

\* U+FFFD, which a decoder puts in the place of bytes it cannot decode.
Replacement == "U+FFFD"

\* Any other character but a surrogate.  These characters are alike in what
\* follows: none is ASCII or white space, str.lower() turns each into one of
\* them, NFKC gives no delimiter for any, and json.dump writes each as it is.
OtherChar == "U+????"

\* ord(c) for the characters above.
OrdTable ==
  [c \in AsciiChars |-> (CHOOSE i \in 1..Len(Ascii) : Ascii[i] = c) - 1]
    @@ UnicodeSpaces @@ NfkcDelimiters
    @@ (Kelvin :> 8490) @@ (DottedI :> 304) @@ (Replacement :> 65533)
Ord(c) == OrdTable[c]

\* chr(n): the character of code point n.
Chr(n) ==
  IF n < Len(Ascii) THEN Ascii[n + 1]
  ELSE IF \E c \in DOMAIN OrdTable : OrdTable[c] = n
    THEN CHOOSE c \in DOMAIN OrdTable : OrdTable[c] = n
    ELSE OtherChar

\* c.isascii() and c.isdigit(), c.isupper(), c.islower(), c.isalpha()
IsDigit(c) == IsAscii(c) /\ Ord(c) \in 48..57
IsUpper(c) == IsAscii(c) /\ Ord(c) \in 65..90
IsLower(c) == IsAscii(c) /\ Ord(c) \in 97..122
IsAlpha(c) == IsUpper(c) \/ IsLower(c)

\* "".join(ss[:k])
RECURSIVE ConcatUpTo(_, _)
ConcatUpTo(ss, k) == IF k = 0 THEN <<>> ELSE ConcatUpTo(ss, k - 1) \o ss[k]

\* c.lower() for a character, s.lower() for a string.
LowerChar(c) ==
  IF IsUpper(c) THEN Chr(Ord(c) + 32)
  ELSE IF c = Kelvin THEN "k"
  ELSE c
LowerSeq(c) == IF c = DottedI THEN <<"i", OtherChar>> ELSE <<LowerChar(c)>>
Lower(s) == ConcatUpTo([i \in 1..Len(s) |-> LowerSeq(s[i])], Len(s))

SetMin(S) == CHOOSE x \in S : \A y \in S : x <= y
SetMax(S) == CHOOSE x \in S : \A y \in S : x >= y

\* Body applied to the value of e: the expression e is evaluated once and
\* Body sees its value.
With(e, Body(_)) == CHOOSE r \in {Body(x) : x \in {e}} : TRUE

\* s.find over a set of characters: the first index >= from holding one of cs, or 0.
Find(s, cs, from) ==
  With({i \in from..Len(s) : s[i] \in cs},
       LAMBDA hits : IF hits = {} THEN 0 ELSE SetMin(hits))

\* s.rfind(c): the last index holding c, or 0.
RFind(s, c) ==
  With({i \in 1..Len(s) : s[i] = c},
       LAMBDA hits : IF hits = {} THEN 0 ELSE SetMax(hits))

\* s[i-1:] in Python terms: the suffix starting at index i.
From(s, i) == SubSeq(s, i, Len(s))

\* sub in s
StartsAt(s, sub, i) ==
  /\ i + Len(sub) - 1 <= Len(s)
  /\ \A k \in 1..Len(sub) : s[i + k - 1] = sub[k]
Contains(s, sub) == \E i \in 1..(Len(s) + 1) : StartsAt(s, sub, i)

\* s.lstrip(cs): s without its leading characters of the set cs.
LStrip(s, cs) ==
  With({i \in 1..Len(s) : s[i] \notin cs},
       LAMBDA keep : IF keep = {} THEN <<>> ELSE From(s, SetMin(keep)))

\* s with every character of the set cs removed (s.replace(c, "") for each).
Remove(s, cs) == SelectSeq(s, LAMBDA c : c \notin cs)

\* The characters of s.
Chars(s) == {s[i] : i \in 1..Len(s)}

\* The members of a set of numbers, in increasing order.
Sorted(S) ==
  [k \in 1..Cardinality(S) |-> CHOOSE x \in S : Cardinality({y \in S : y <= x}) = k]

\* s.split(c): the pieces of s between occurrences of c.
Split(s, c) ==
  With(<<0>> \o Sorted({i \in 1..Len(s) : s[i] = c}) \o <<Len(s) + 1>>,
       LAMBDA cuts : [k \in 1..(Len(cuts) - 1) |-> SubSeq(s, cuts[k] + 1, cuts[k + 1] - 1)])

\* s.split(c, 1): s cut at the first c (found = FALSE: there is none).
SplitOnce(s, c) ==
  With(Find(s, {c}, 1),
       LAMBDA i : IF i = 0 THEN [found |-> FALSE, head |-> s, tail |-> <<>>]
                  ELSE [found |-> TRUE, head |-> SubSeq(s, 1, i - 1), tail |-> From(s, i + 1)])

-----------------------------------------------------------------------------
(* urllib.parse, as video_id_from_url uses it *)

HexDigits == <<"0", "1", "2", "3", "4", "5", "6", "7", "8", "9",
               "A", "B", "C", "D", "E", "F">>
UpperChar(c) == IF IsLower(c) THEN Chr(Ord(c) - 32) ELSE c
IsHex(c) == \E i \in 1..16 : HexDigits[i] = UpperChar(c)
HexVal(c) == (CHOOSE i \in 1..16 : HexDigits[i] = UpperChar(c)) - 1

SchemeChars == {c \in AsciiChars : IsAlpha(c) \/ IsDigit(c) \/ c \in {"+", "-", "."}}

\* The characters urlsplit strips from the front of a URL (the C0 controls
\* and the space) and those it removes wherever they stand.
C0ControlOrSpace == {c \in AsciiChars : Ord(c) <= 32}
UnsafeUrlBytes == {"\t", "\r", "\n"}

\* The schemes whose last path segment may carry ";parameters".
UsesParams ==
  { <<>>, <<"f","t","p">>, <<"h","d","l">>, <<"p","r","o","s","p","e","r","o">>,
    <<"h","t","t","p">>, <<"i","m","a","p">>, <<"h","t","t","p","s">>,
    <<"s","h","t","t","p">>, <<"r","t","s","p">>, <<"r","t","s","p","s">>,
    <<"r","t","s","p","u">>, <<"s","i","p">>, <<"s","i","p","s">>, <<"m","m","s">>,
    <<"s","f","t","p">>, <<"t","e","l">> }

\* urlsplit, first step: a leading "scheme:" is taken off and lower-cased.
SplitScheme(u) ==
  With(Find(u, {":"}, 1),
       LAMBDA colon :
         IF /\ colon > 1
            /\ IsAlpha(u[1])
            /\ \A k \in 1..(colon - 1) : u[k] \in SchemeChars
           THEN [scheme |-> Lower(SubSeq(u, 1, colon - 1)), rest |-> From(u, colon + 1)]
           ELSE [scheme |-> <<>>, rest |-> u])

\* urlsplit, second step: after "//" the netloc runs to the first "/", "?" or "#".
SplitNetloc(r) ==
  IF Len(r) >= 2 /\ r[1] = "/" /\ r[2] = "/"
    THEN With(Find(r, {"/", "?", "#"}, 3),
              LAMBDA d : IF d = 0 THEN [netloc |-> From(r, 3), rest |-> <<>>]
                         ELSE [netloc |-> SubSeq(r, 3, d - 1), rest |-> From(r, d)])
    ELSE [netloc |-> <<>>, rest |-> r]

\* ipaddress.IPv4Address(s) accepts s: four octets, each of one to three
\* decimal digits without a leading zero and at most 255.
OctetValue(o) ==
  IF Len(o) = 1 THEN Ord(o[1]) - 48
  ELSE IF Len(o) = 2 THEN 10 * (Ord(o[1]) - 48) + (Ord(o[2]) - 48)
  ELSE 100 * (Ord(o[1]) - 48) + 10 * (Ord(o[2]) - 48) + (Ord(o[3]) - 48)
IsOctet(o) ==
  /\ o # <<>>
  /\ \A j \in 1..Len(o) : IsDigit(o[j])
  /\ Len(o) <= 3
  /\ ~(Len(o) > 1 /\ o[1] = "0")
  /\ OctetValue(o) <= 255
IsIPv4(s) ==
  With(Split(s, "."), LAMBDA octets :
    Len(octets) = 4 /\ \A k \in 1..4 : IsOctet(octets[k]))

\* One group of an IPv6 address: one to four hexadecimal digits.
IsHextet(h) == h # <<>> /\ Len(h) <= 4 /\ \A j \in 1..Len(h) : IsHex(h[j])

\* _ip_int_from_string of IPv6 accepts the parts the address splits into at
\* ":" (an IPv4 suffix already replaced by two groups).
IPv6Parts(parts) ==
  With(Len(parts), LAMBDA n :
  With({i \in 2..(n - 1) : parts[i] = <<>>}, LAMBDA skips :
    /\ n <= 9
    /\ Cardinality(skips) <= 1
    /\ IF skips # {}
         THEN With(CHOOSE k \in skips : TRUE, LAMBDA k :
              With(IF parts[1] = <<>> THEN k - 2 ELSE k - 1, LAMBDA hi :
              With(IF parts[n] = <<>> THEN n - k - 1 ELSE n - k, LAMBDA lo :
                /\ parts[1] = <<>> => hi = 0
                /\ parts[n] = <<>> => lo = 0
                /\ hi + lo <= 7
                /\ \A i \in 1..hi : IsHextet(parts[i])
                /\ \A i \in (n - lo + 1)..n : IsHextet(parts[i]))))
         ELSE /\ n = 8
              /\ \A i \in 1..n : IsHextet(parts[i])))

\* ipaddress.IPv6Address(s) accepts s.
IsIPv6(s) ==
  With(SplitOnce(s, "%"), LAMBDA z :
    /\ z.found => (z.tail # <<>> /\ "%" \notin Chars(z.tail))
    /\ z.head # <<>>
    /\ With(Split(z.head, ":"), LAMBDA raw :
         /\ Len(raw) >= 3
         /\ IF "." \in Chars(raw[Len(raw)])
              THEN /\ IsIPv4(raw[Len(raw)])
                   /\ IPv6Parts(SubSeq(raw, 1, Len(raw) - 1) \o << <<"0">>, <<"0">> >>)
              ELSE IPv6Parts(raw)))

\* re.match(r"\Av[a-fA-F0-9]+\..+\Z", h): "v", hexadecimal digits, a dot, and
\* at least one more character.
IsIPvFuture(h) ==
  /\ h # <<>> /\ h[1] = "v"
  /\ \E k \in 3..(Len(h) - 1) :
       /\ \A j \in 2..(k - 1) : IsHex(h[j])
       /\ h[k] = "."
       /\ \A j \in (k + 1)..Len(h) : h[j] # "\n"

\* urlsplit's checks of a netloc with brackets: both brackets are there, and
\* the text after the first "[" up to the next "]" is an IPv6 or IPvFuture
\* address.  FALSE: urlsplit raises ValueError.
BracketsValid(netloc) ==
  IF "[" \notin Chars(netloc) /\ "]" \notin Chars(netloc) THEN TRUE
  ELSE IF "[" \notin Chars(netloc) \/ "]" \notin Chars(netloc) THEN FALSE
  ELSE With(SplitOnce(SplitOnce(netloc, "[").tail, "]").head, LAMBDA h :
         IF h # <<>> /\ h[1] = "v" THEN IsIPvFuture(h) ELSE IsIPv6(h))

\* _checknetloc(netloc): FALSE (urlsplit raises ValueError) when the NFKC
\* normal form of the netloc holds a delimiter the netloc itself did not.
NetlocValid(netloc) == \A i \in 1..Len(netloc) : netloc[i] \notin DOMAIN NfkcDelimiters

\* _splitparams(url): the path cut at the first ";" of its last segment.
SplitParams(path) ==
  With(Find(path, {";"}, IF "/" \in Chars(path) THEN RFind(path, "/") ELSE 1),
       LAMBDA i : IF i = 0 THEN [path |-> path, params |-> <<>>]
                  ELSE [path |-> SubSeq(path, 1, i - 1), params |-> From(path, i + 1)])

\* urlparse(url): scheme, netloc, path, params, query and fragment of the URL;
\* ok = FALSE: urlparse raises ValueError.
urlparse(u) ==
  With(Remove(LStrip(u, C0ControlOrSpace), UnsafeUrlBytes), LAMBDA s :
  With(SplitScheme(s), LAMBDA a :
  With(SplitNetloc(a.rest), LAMBDA b :
  With(SplitOnce(b.rest, "#"), LAMBDA c :
  With(SplitOnce(c.head, "?"), LAMBDA d :
  With(IF a.scheme \in UsesParams /\ ";" \in Chars(d.head)
         THEN SplitParams(d.head) ELSE [path |-> d.head, params |-> <<>>], LAMBDA e :
    IF BracketsValid(b.netloc) /\ NetlocValid(b.netloc)
      THEN [ok |-> TRUE, scheme |-> a.scheme, netloc |-> b.netloc, path |-> e.path,
            params |-> e.params, query |-> d.tail, fragment |-> c.tail]
      ELSE [ok |-> FALSE, scheme |-> <<>>, netloc |-> <<>>, path |-> <<>>,
            params |-> <<>>, query |-> <<>>, fragment |-> <<>>]))))))

\* ParseResult.hostname: the host of the netloc, lower-cased, without user
\* information, brackets and port; None (some = FALSE) when there is none.
hostname(parsed) ==
  With(From(parsed.netloc, RFind(parsed.netloc, "@") + 1), LAMBDA hostinfo :
  With(SplitOnce(hostinfo, "["), LAMBDA br :
  With(IF br.found THEN SplitOnce(br.tail, "]").head
       ELSE SplitOnce(hostinfo, ":").head, LAMBDA host :
  With(SplitOnce(host, "%"), LAMBDA z :
    IF host = <<>> THEN [some |-> FALSE, v |-> <<>>]
    ELSE [some |-> TRUE,
          v |-> IF z.found THEN Lower(z.head) \o <<"%">> \o z.tail ELSE Lower(host)]))))

\* bytes.decode("utf-8", "replace") at an escape %XX of s that gives a byte
\* above 127: the character decoded and the index after the escapes it took.
\* A byte that cannot begin a character, or that the bytes after it do not
\* continue, gives U+FFFD.
ByteAt(s, i) ==
  IF i + 2 <= Len(s) /\ s[i] = "%" /\ IsHex(s[i + 1]) /\ IsHex(s[i + 2])
    THEN 16 * HexVal(s[i + 1]) + HexVal(s[i + 2])
    ELSE 0 - 1
SecondBytes(lead) ==
  IF lead = 224 THEN 160..191
  ELSE IF lead = 237 THEN 128..159
  ELSE IF lead = 240 THEN 144..191
  ELSE IF lead = 244 THEN 128..143
  ELSE 128..191
DecodeAt(s, i) ==
  With(<<ByteAt(s, i), ByteAt(s, i + 3), ByteAt(s, i + 6), ByteAt(s, i + 9)>>, LAMBDA b :
    IF b[1] \notin 194..244 \/ b[2] \notin SecondBytes(b[1])
      THEN [c |-> Replacement, next |-> i + 3]
    ELSE IF b[1] <= 223
      THEN [c |-> Chr((b[1] - 192) * 64 + (b[2] - 128)), next |-> i + 6]
    ELSE IF b[3] \notin 128..191
      THEN [c |-> Replacement, next |-> i + 6]
    ELSE IF b[1] <= 239
      THEN [c |-> Chr((b[1] - 224) * 4096 + (b[2] - 128) * 64 + (b[3] - 128)),
            next |-> i + 9]
    ELSE IF b[4] \notin 128..191
      THEN [c |-> Replacement, next |-> i + 9]
    ELSE [c |-> OtherChar, next |-> i + 12])

\* unquote(s), from index i on: every %XX escape replaced by the character it
\* encodes; a "%" that no two hex digits follow is kept.
RECURSIVE UnquoteFrom(_, _)
UnquoteFrom(s, i) ==
  IF i > Len(s) THEN <<>>
  ELSE With(ByteAt(s, i), LAMBDA b :
    IF b < 0 THEN <<s[i]>> \o UnquoteFrom(s, i + 1)
    ELSE IF b < 128 THEN <<Chr(b)>> \o UnquoteFrom(s, i + 3)
    ELSE With(DecodeAt(s, i), LAMBDA d : <<d.c>> \o UnquoteFrom(s, d.next)))

unquote(s) == IF "%" \in Chars(s) THEN UnquoteFrom(s, 1) ELSE s

\* s.replace("+", " ")
PlusToSpace(s) == [i \in 1..Len(s) |-> IF s[i] = "+" THEN " " ELSE s[i]]

\* parse_qsl, one field: its name/value pair; a field without "=" or with an
\* empty value gives none (keep_blank_values=False).
PairOf(field) ==
  With(SplitOnce(field, "="), LAMBDA nv :
    IF ~nv.found \/ nv.tail = <<>> THEN <<>>
    ELSE <<[name  |-> With(PlusToSpace(nv.head), LAMBDA x : unquote(x)),
            value |-> With(PlusToSpace(nv.tail), LAMBDA x : unquote(x))]>>)

RECURSIVE PairsFrom(_, _)
PairsFrom(fields, k) ==
  IF k > Len(fields) THEN <<>>
  ELSE With(fields[k], LAMBDA f : PairOf(f)) \o PairsFrom(fields, k + 1)

\* parse_qsl(qs): the name/value pairs of a query string, in order.
parse_qsl(qs) == With(Split(qs, "&"), LAMBDA fields : PairsFrom(fields, 1))

\* parse_qs(qs)[name]: the values given for name, in order (<<>>: name is no key).
parse_qs(qs, name) ==
  With(parse_qsl(qs), LAMBDA ps : SelectSeq(ps, LAMBDA p : p.name = name))

-----------------------------------------------------------------------------
(* video_id_from_url *)

\* [0-9A-Za-z_-]
IsIdChar(c) == IsDigit(c) \/ IsAlpha(c) \/ c \in {"_", "-"}

IdLength == 11

\* The markers of the pattern (?:embed/|v/|shorts/), in the order tried.
Markers == << <<"e","m","b","e","d","/">>, <<"v","/">>, <<"s","h","o","r","t","s","/">> >>

\* Whether the pattern matches at index i with marker m.
MatchesAt(s, i, m) ==
  /\ StartsAt(s, m, i)
  /\ i + Len(m) + IdLength - 1 <= Len(s)
  /\ \A k \in 0..(IdLength - 1) : IsIdChar(s[i + Len(m) + k])

\* re.search(r"(?:embed/|v/|shorts/)([0-9A-Za-z_-]{11})", url): group 1 of the
\* leftmost match, or no match (some = FALSE).
re_search(s) ==
  With({p \in (1..Len(s)) \X (1..Len(Markers)) : MatchesAt(s, p[1], Markers[p[2]])},
       LAMBDA hits :
         IF hits = {} THEN [some |-> FALSE, v |-> <<>>]
         ELSE With(SetMin({p[1] : p \in hits}), LAMBDA i :
              With(SetMin({p[2] : p \in {q \in hits : q[1] = i}}), LAMBDA j :
                [some |-> TRUE,
                 v |-> SubSeq(s, i + Len(Markers[j]), i + Len(Markers[j]) + IdLength - 1)])))

YoutuBe == <<"y","o","u","t","u",".","b","e">>
Watch   == <<"w","a","t","c","h">>
VKey    == <<"v">>

\* video_id_from_url(url): the identifier (ok = TRUE) or ValueError (ok = FALSE),
\* raised by urlparse or at the end of the function.
video_id_from_url(u) ==
  With(urlparse(u), LAMBDA parsed :
  With(hostname(parsed), LAMBDA host :
    IF ~parsed.ok THEN [ok |-> FALSE, v |-> <<>>]
    ELSE IF host.some /\ host.v = YoutuBe
      THEN [ok |-> TRUE, v |-> LStrip(parsed.path, {"/"})]
    ELSE With(parse_qs(parsed.query, VKey), LAMBDA vs :
      IF Contains(parsed.path, Watch) /\ vs # <<>>
        THEN [ok |-> TRUE, v |-> vs[1].value]
      ELSE With(re_search(u), LAMBDA m :
        IF m.some THEN [ok |-> TRUE, v |-> m.v] ELSE [ok |-> FALSE, v |-> <<>>]))))

Urls ==
  {
    \* https://youtu.be/dQw4w9WgXcQ
    <<"h","t","t","p","s",":","/","/","y","o","u","t","u",".","b","e","/","d","Q","w","4","w","9","W","g","X","c","Q">>,
    \* https://YouTu.be/dQw4w9WgXcQ?t=5
    <<"h","t","t","p","s",":","/","/","Y","o","u","T","u",".","b","e","/","d","Q","w","4","w","9","W","g","X","c","Q","?","t","=","5">>,
    \* https://www.youtube.com/watch?v=dQw4w9WgXcQ
    <<"h","t","t","p","s",":","/","/","w","w","w",".","y","o","u","t","u","b","e",".","c","o","m","/","w","a","t","c","h","?","v","=","d","Q","w","4","w","9","W","g","X","c","Q">>,
    \* https://www.youtube.com/watch?t=5&v=dQw4w9WgXcQ
    <<"h","t","t","p","s",":","/","/","w","w","w",".","y","o","u","t","u","b","e",".","c","o","m","/","w","a","t","c","h","?","t","=","5","&","v","=","d","Q","w","4","w","9","W","g","X","c","Q">>,
    \* https://www.youtube.com/embed/dQw4w9WgXcQ
    <<"h","t","t","p","s",":","/","/","w","w","w",".","y","o","u","t","u","b","e",".","c","o","m","/","e","m","b","e","d","/","d","Q","w","4","w","9","W","g","X","c","Q">>,
    \* https://www.youtube.com/v/dQw4w9WgXcQ
    <<"h","t","t","p","s",":","/","/","w","w","w",".","y","o","u","t","u","b","e",".","c","o","m","/","v","/","d","Q","w","4","w","9","W","g","X","c","Q">>,
    \* https://www.youtube.com/shorts/dQw4w9WgXcQ#x
    <<"h","t","t","p","s",":","/","/","w","w","w",".","y","o","u","t","u","b","e",".","c","o","m","/","s","h","o","r","t","s","/","d","Q","w","4","w","9","W","g","X","c","Q","#","x">>,
    \* https://www.youtube.com/watch/embed/AAAAAAAAAAA?v=dQw4w9WgXcQ
    <<"h","t","t","p","s",":","/","/","w","w","w",".","y","o","u","t","u","b","e",".","c","o","m","/","w","a","t","c","h","/","e","m","b","e","d","/","A","A","A","A","A","A","A","A","A","A","A","?","v","=","d","Q","w","4","w","9","W","g","X","c","Q">>,
    \* https://youtu.be/
    <<"h","t","t","p","s",":","/","/","y","o","u","t","u",".","b","e","/">>,
    \* https://youtu.be/abc
    <<"h","t","t","p","s",":","/","/","y","o","u","t","u",".","b","e","/","a","b","c">>,
    \* https://youtu.be/embed/dQw4w9WgXcQ
    <<"h","t","t","p","s",":","/","/","y","o","u","t","u",".","b","e","/","e","m","b","e","d","/","d","Q","w","4","w","9","W","g","X","c","Q">>,
    \* https://www.youtube.com/watch?v=abc
    <<"h","t","t","p","s",":","/","/","w","w","w",".","y","o","u","t","u","b","e",".","c","o","m","/","w","a","t","c","h","?","v","=","a","b","c">>,
    \* https://www.youtube.com/watch?v=
    <<"h","t","t","p","s",":","/","/","w","w","w",".","y","o","u","t","u","b","e",".","c","o","m","/","w","a","t","c","h","?","v","=">>,
    \* https://www.youtube.com/watch?v=a+b%2Dc
    <<"h","t","t","p","s",":","/","/","w","w","w",".","y","o","u","t","u","b","e",".","c","o","m","/","w","a","t","c","h","?","v","=","a","+","b","%","2","D","c">>,
    \* https://www.youtube.com/embed/short
    <<"h","t","t","p","s",":","/","/","w","w","w",".","y","o","u","t","u","b","e",".","c","o","m","/","e","m","b","e","d","/","s","h","o","r","t">>,
    \* https://example.com/
    <<"h","t","t","p","s",":","/","/","e","x","a","m","p","l","e",".","c","o","m","/">>,
    \* youtu.be/dQw4w9WgXcQ
    <<"y","o","u","t","u",".","b","e","/","d","Q","w","4","w","9","W","g","X","c","Q">>,
    \* https://youtu.be/dQw4w\t9WgXcQ
    <<"h","t","t","p","s",":","/","/","y","o","u","t","u",".","b","e","/","d","Q","w","4","w","\t","9","W","g","X","c","Q">>,
    \* https://youtu.be/abc;x
    <<"h","t","t","p","s",":","/","/","y","o","u","t","u",".","b","e","/","a","b","c",";","x">>,
    \* https://[youtu.be/embed/dQw4w9WgXcQ
    <<"h","t","t","p","s",":","/","/","[","y","o","u","t","u",".","b","e","/","e","m","b","e","d","/","d","Q","w","4","w","9","W","g","X","c","Q">>,
    \* https://[::1]/embed/dQw4w9WgXcQ
    <<"h","t","t","p","s",":","/","/","[",":",":","1","]","/","e","m","b","e","d","/","d","Q","w","4","w","9","W","g","X","c","Q">>,
    \* https://youtu.be\uff0fembed/dQw4w9WgXcQ
    <<"h","t","t","p","s",":","/","/","y","o","u","t","u",".","b","e","U+FF0F","e","m","b","e","d","/","d","Q","w","4","w","9","W","g","X","c","Q">>,
    \* https://YOUTU.BE\u212a/dQw4w9WgXcQ
    <<"h","t","t","p","s",":","/","/","Y","O","U","T","U",".","B","E","U+212A","/","d","Q","w","4","w","9","W","g","X","c","Q">>
  }
-----------------------------------------------------------------------------
(* Values main() handles *)

\* A value of the variable `transcript`: None, a FetchedTranscript object
\* (an object with .snippets) or a plain list of segment dicts.
None == [kind |-> "None", segs |-> <<>>]
FetchedTranscript(snippets) == [kind |-> "FetchedTranscript", segs |-> snippets]
List(items) == [kind |-> "list", segs |-> items]

\* `x is None`
IsNone(t) == t.kind = "None"

\* bool(x): None is false; a list and a FetchedTranscript (whose __len__ is the
\* number of its snippets) are false exactly when they are empty.
Truthy(t) == ~IsNone(t) /\ Len(t.segs) > 0

\* `not s` for a string.
MissingNever(s) == FALSE
Missing(s) == s = <<>>

\* The characters str.isspace() holds: tab to carriage return, the four
\* separators U+001C to U+001F, the space, and those outside ASCII.
Whitespace ==
  {c \in AsciiChars : Ord(c) \in (9..13) \cup (28..32)} \cup DOMAIN UnicodeSpaces

\* s.strip()
Strip(s) ==
  With({i \in 1..Len(s) : s[i] \notin Whitespace},
       LAMBDA keep : IF keep = {} THEN <<>> ELSE SubSeq(s, SetMin(keep), SetMax(keep)))

\* The decimal digits of n >= 0, most significant first.
RECURSIVE Digits(_)
Digits(n) ==
  IF n < 10 THEN <<Chr(48 + n)>> ELSE Digits(n \div 10) \o <<Chr(48 + (n % 10))>>

\* The number the first k of a run of decimal digits write (0 for none).
RECURSIVE DecimalUpTo(_, _)
DecimalUpTo(ds, k) ==
  IF k = 0 THEN 0 ELSE 10 * DecimalUpTo(ds, k - 1) + (Ord(ds[k]) - 48)

DecimalValue(ds) == DecimalUpTo(ds, Len(ds))

\* float(s) for a decimal numeral "ddd" or "ddd.d", in tenths.
float(s) ==
  With(SplitOnce(s, "."), LAMBDA p :
    10 * DecimalValue(p.head) + (IF p.tail = <<>> THEN 0 ELSE Ord(p.tail[1]) - 48))

\* repr(x) of a float x >= 0 held in tenths: "ddd.d".
float_repr(t) == Digits(t \div 10) \o <<".">> \o Digits(t % 10)

-----------------------------------------------------------------------------
(* fetch_with_yta *)

\* What api.fetch can do: return a transcript, raise one of the two
\* no-transcript exceptions, or raise anything else.
Returned(t) == [does |-> "return", value |-> t]
Raised(e)   == [does |-> "raise", value |-> [kind |-> e, segs |-> <<>>]]

SoftMisses == {"TranscriptsDisabled", "NoTranscriptFound"}

\* fetch_with_yta: the library's result passed on, the two no-transcript
\* exceptions turned into None, any other exception left to propagate.
fetch_with_yta(lib) ==
  IF lib.does = "raise" /\ lib.value.kind \in SoftMisses THEN Returned(None) ELSE lib

-----------------------------------------------------------------------------
(* fetch_with_pytube *)

\* f"a.{code}"
AutoCode(code) == <<"a", ".">> \o code

\* languages + [f"a.{languages[0]}"]
CandidatesAutoFirst(languages) == <<AutoCode(languages[1])>> \o languages
Candidates(languages) == languages \o <<AutoCode(languages[1])>>

\* The index of the first candidate yt.captions.get(code) finds (a Caption
\* object is always true), or 0.
FirstHit(cands, caps) ==
  With({i \in 1..Len(cands) : cands[i] \in DOMAIN caps},
       LAMBDA hits : IF hits = {} THEN 0 ELSE SetMin(hits))

\* The segments of a caption track's XML: one per <text> element.
ParseCaptionXml(xml) ==
  [i \in 1..Len(xml) |->
     [text     |-> Strip(xml[i].text),
      start    |-> float(xml[i].start),
      duration |-> float(xml[i].dur)]]

\* The codes looked up, in order: up to and including the first one found.
PytubeProbes(languages, caps) ==
  With(Candidates(languages), LAMBDA cands :
  With(FirstHit(cands, caps), LAMBDA hit :
    IF hit = 0 THEN cands ELSE SubSeq(cands, 1, hit)))

fetch_with_pytube_empty(languages, caps) ==
  With(Candidates(languages), LAMBDA cands :
  With(FirstHit(cands, caps), LAMBDA hit :
    IF hit = 0 THEN List(<<>>) ELSE List(ParseCaptionXml(caps[cands[hit]]))))
fetch_with_pytube(languages, caps) ==
  With(Candidates(languages), LAMBDA cands :
  With(FirstHit(cands, caps), LAMBDA hit :
    IF hit = 0 THEN None ELSE List(ParseCaptionXml(caps[cands[hit]]))))

-----------------------------------------------------------------------------
(* The writers *)

Absent == [state |-> "absent", text |-> <<>>, story |-> <<>>]
\* A file that was opened for writing and not completed.
Partial == [state |-> "partial", text |-> <<>>, story |-> <<>>]
TextFile(chars) == [state |-> "written", text |-> chars, story |-> <<>>]
PdfFile(story) == [state |-> "written", text |-> <<>>, story |-> story]

\* What the file system (and, for the PDF, reportlab) does to a writer.
WriterEnv == {"ok", "open_error", "write_error"}
PdfEnv == WriterEnv \cup {"import_error"}

FileAfter(env, complete) ==
  CASE env = "ok"          -> complete
    [] env = "write_error" -> Partial
    [] OTHER               -> Absent

\* "".join(ss)
Concat(ss) == With(ss, LAMBDA v : ConcatUpTo(v, Len(v)))

\* json.dumps of a str with ensure_ascii=False: the quote, the backslash and
\* the control characters below U+0020 are escaped, the last as \b, \f, \n,
\* \r, \t or \u00xx; every other character is written as it is.
JsonEscapeChar(c) ==
  CASE c = "\"" -> <<"\\", "\"">>
    [] c = "\\" -> <<"\\", "\\">>
    [] c = "\n" -> <<"\\", "n">>
    [] c = "\r" -> <<"\\", "r">>
    [] c = "\t" -> <<"\\", "t">>
    [] c = "\f" -> <<"\\", "f">>
    [] c = Chr(8) -> <<"\\", "b">>
    [] OTHER    ->
         IF IsAscii(c) /\ Ord(c) < 32
           THEN <<"\\", "u", "0", "0", LowerChar(HexDigits[(Ord(c) \div 16) + 1]),
                  LowerChar(HexDigits[(Ord(c) % 16) + 1])>>
           ELSE <<c>>
JsonString(s) ==
  <<"\"">> \o Concat([i \in 1..Len(s) |-> JsonEscapeChar(s[i])]) \o <<"\"">>

TextKey     == <<"t","e","x","t">>
StartKey    == <<"s","t","a","r","t">>
DurationKey == <<"d","u","r","a","t","i","o","n">>

Indent(n) == [i \in 1..n |-> " "]
JsonIndent == 2

\* One dict of the list, at nesting level 1 of json.dump(..., indent=2).
JsonObject(seg) ==
  LET member(key, val, last) ==
        Indent(2 * JsonIndent) \o JsonString(key) \o <<":", " ">> \o val
          \o (IF last THEN <<>> ELSE <<",">>) \o <<"\n">>
  IN  Indent(JsonIndent) \o <<"{", "\n">>
        \o member(TextKey, JsonString(seg.text), FALSE)
        \o member(StartKey, float_repr(seg.start), FALSE)
        \o member(DurationKey, float_repr(seg.duration), TRUE)
        \o Indent(JsonIndent) \o <<"}">>

\* json.dump(transcript_list, f, ensure_ascii=False, indent=2)
json_dump(segs) ==
  IF segs = <<>> THEN <<"[", "]">>
  ELSE <<"[", "\n">>
         \o Concat([i \in 1..Len(segs) |->
                      JsonObject(segs[i])
                        \o (IF i < Len(segs) THEN <<",">> ELSE <<>>) \o <<"\n">>])
         \o <<"]">>

\* The JSON block of main(): the file it leaves and whether it counted a success.
save_as_json(segs, env) ==
  [ret |-> env = "ok", raised |-> FALSE, file |-> FileAfter(env, TextFile(json_dump(segs)))]

\* save_as_txt: one line per entry, the entry's text and a newline.
txt_content(segs) == Concat([i \in 1..Len(segs) |-> segs[i].text \o <<"\n">>])

save_as_txt_raises(segs, env) ==
  [ret |-> env = "ok", raised |-> env # "ok", file |-> FileAfter(env, TextFile(txt_content(segs)))]
save_as_txt(segs, env) ==
  [ret |-> env = "ok", raised |-> FALSE, file |-> FileAfter(env, TextFile(txt_content(segs)))]

\* f"{n:02d}": the decimal digits of n, zero-padded on the left to two.
Pad2(n) == IF n < 10 THEN <<"0">> \o Digits(n) ELSE Digits(n)

\* int(entry['start'] // 60) and int(entry['start'] % 60), start in tenths.
MinutesOf(start) == (start \div 10) \div 60
SecondsOfRounded(start) == (((start % 600) + 5) \div 10)
SecondsOf(start) == (start % 600) \div 10

\* f"[{minutes:02d}:{seconds:02d}]"
Timestamp(start) ==
  <<"[">> \o Pad2(MinutesOf(start)) \o <<":">> \o Pad2(SecondsOf(start)) \o <<"]">>

TitleText ==
  <<"Y","o","u","T","u","b","e"," ","V","i","d","e","o"," ",
    "T","r","a","n","s","c","r","i","p","t">>

Flowable(kind, text) == [kind |-> kind, text |-> text]

\* The story save_as_pdf builds: the title, a spacer, one paragraph per entry.
pdf_story(segs) ==
  <<Flowable("Title", TitleText), Flowable("Spacer", <<>>)>>
    \o [i \in 1..Len(segs) |->
          Flowable("Paragraph", Timestamp(segs[i].start) \o <<" ">> \o segs[i].text)]

\* save_as_pdf: a missing reportlab (ImportError) and any other failure are
\* both reported and answered with False.
save_as_pdf(segs, env) ==
  [ret |-> env = "ok", raised |-> FALSE, file |-> FileAfter(env, PdfFile(pdf_story(segs)))]

\* The conversion of lines 155-168: a FetchedTranscript becomes a list of
\* dicts built from its snippets' attributes; anything else is used as it is.
NormalizeSwapped(t) ==
  IF t.kind = "FetchedTranscript"
    THEN [i \in 1..Len(t.segs) |->
            [text |-> t.segs[i].text, start |-> t.segs[i].duration,
             duration |-> t.segs[i].start]]
    ELSE t.segs
Normalize(t) ==
  IF t.kind = "FetchedTranscript"
    THEN [i \in 1..Len(t.segs) |->
            [text |-> t.segs[i].text, start |-> t.segs[i].start,
             duration |-> t.segs[i].duration]]
    ELSE t.segs

\* The closing report of main(): the message printed and how the process ends.
OutcomeStrict(count) ==
  IF count < 3 THEN [pc |-> "Aborted", status |-> 1, msg |-> "failed", n |-> count]
  ELSE [pc |-> "Done", status |-> 0, msg |-> "all", n |-> count]
Outcome(count) ==
  IF count = 0 THEN [pc |-> "Aborted", status |-> 1, msg |-> "failed", n |-> count]
  ELSE IF count < 3 THEN [pc |-> "Done", status |-> 0, msg |-> "partial", n |-> count]
  ELSE [pc |-> "Done", status |-> 0, msg |-> "all", n |-> count]

\* The segments transcripts are built from: the two of the documented scenario,
\* an empty text, a text holding a newline, a text holding a quote and a
\* backslash, a text of control characters, and starts at 59.9 s, 60 s, 3599.9 s, 5999.9 s and 6000 s.
Segments ==
  {
    [text |-> <<"h","e","l","l","o">>, start |-> 0, duration |-> 12],
    [text |-> <<"w","o","r","l","d">>, start |-> 12, duration |-> 8],
    [text |-> <<>>, start |-> 599, duration |-> 0],
    [text |-> <<"a","\n","b">>, start |-> 600, duration |-> 8],
    [text |-> <<"q","\"","\\">>, start |-> 35999, duration |-> 8],
    [text |-> <<"\f","U+0008","U+001F","U+007F">>, start |-> 1, duration |-> 1],
    [text |-> <<"h","i">>, start |-> 59999, duration |-> 0],
    [text |-> <<"h","i">>, start |-> 60000, duration |-> 12]
  }
\* Caption codes are text as well: "en" is <<"e","n">>.
\* The timed-text markup of each caption track: its <text> elements, each with
\* its text content and its start and dur attributes as written.
TrackXml(code) ==
  CASE code = <<"e","n">> ->
       <<[text |-> <<" ","h","e","l","l","o"," ">>, start |-> <<"0",".","0">>, dur |-> <<"1",".","2">>], [text |-> <<"w","o","r","l","d","\n">>, start |-> <<"1",".","2">>, dur |-> <<"0",".","8">>]>>
    [] code = <<"a",".","e","n">> ->
       <<[text |-> <<"a","u","t","o">>, start |-> <<"0">>, dur |-> <<"2",".","5">>]>>
    [] code = <<"f","r">> ->
       <<>>
    [] code = <<"a",".","f","r">> ->
       <<[text |-> <<" ">>, start |-> <<"3",".","0">>, dur |-> <<"1",".","0">>]>>
    [] code = <<"d","e">> ->
       <<[text |-> <<"d","e">>, start |-> <<"1","0",".","5">>, dur |-> <<"1",".","0">>]>>
    [] code = <<"a",".","d","e">> ->
       <<[text |-> <<"a","d","e">>, start |-> <<"6","1">>, dur |-> <<"0",".","5">>]>>
    [] OTHER -> <<>>
-----------------------------------------------------------------------------
(* Inputs *)

MaxSegs == 2
MaxLangs == 2

\* What the user may type at the URL prompt: nothing, blanks, or one of Urls.
UrlInputs == Urls \cup {<<>>, <<" ">>, <<"\f", "U+00A0">>}

\* What the user may type at the filename prompt.
FilenameInputs == {<<>>, <<" ">>, <<"o","u","t">>, <<" ","o","u","t","\f">>}

En == <<"e","n">>
Fr == <<"f","r">>
De == <<"d","e">>

\* Values of --lang.
LangCodes == {En}

\* Sequences over S of length at most n.
SeqsUpTo(S, n) == UNION {[1..k -> S] : k \in 0..n}

Hello == [text |-> <<"h","e","l","l","o">>, start |-> 0, duration |-> 12]
World == [text |-> <<"w","o","r","l","d">>, start |-> 12, duration |-> 8]

\* What api.fetch may do: raise, or return a transcript in either shape.
LibraryOutcomes(transcripts) ==
  {Raised(e) : e \in SoftMisses \cup {"OtherError"}}
    \cup {Returned(FetchedTranscript(t)) : t \in transcripts}
    \cup {Returned(List(t)) : t \in transcripts}

\* The caption tracks a video may have, out of the given codes.
CaptionSets(codes) == {[c \in S |-> TrackXml(c)] : S \in SUBSET codes}

WithAuto(codes) == codes \cup {AutoCode(c) : c \in codes}

-----------------------------------------------------------------------------
(* main() *)

NoFiles == [json |-> Absent, txt |-> Absent, pdf |-> Absent]

Init ==
  /\ pc = "AwaitingUrl"
  /\ url = <<>>
  /\ vid = <<>>
  /\ filename = <<>>
  /\ langs \in {<<l>> : l \in LangCodes}
  /\ primary = None
  /\ captions = <<>>
  /\ transcript = None
  /\ transcript_list = <<>>
  /\ success_count = 0
  /\ files = NoFiles
  /\ given = [json |-> <<>>, txt |-> <<>>, pdf |-> <<>>]
  /\ calls = <<>>
  /\ probes = <<>>
  /\ stdout = <<>>
  /\ exit_status = <<>>

\* sys.exit(1), sys.exit("message") and an uncaught exception all end the
\* process with status 1.
Abort(msg) ==
  /\ pc' = "Aborted"
  /\ exit_status' = <<1>>
  /\ stdout' = Append(stdout, [msg |-> msg, n |-> 0])

\* Lines 126-136: prompt for the URL, reject an empty one, extract the identifier.
PromptUrl(inputs) ==
  /\ pc = "AwaitingUrl"
  /\ \E raw \in inputs : \E u \in {Strip(raw)} :
       /\ url' = u
       /\ calls' = Append(calls, "prompt_url")
       /\ IF Missing(u)
            THEN Abort("no_url") /\ vid' = vid
            ELSE \E r \in {video_id_from_url(u)} :
                   IF ~r.ok
                     THEN Abort("invalid_url") /\ vid' = vid
                     ELSE /\ vid' = r.v
                          /\ pc' = "AwaitingFilename"
                          /\ UNCHANGED <<stdout, exit_status>>
  /\ UNCHANGED <<filename, langs, primary, captions, transcript, transcript_list,
                 success_count, files, given, probes>>

\* Lines 139-145: prompt for the filename, reject an empty one.
PromptFilename ==
  /\ pc = "AwaitingFilename"
  /\ \E raw \in FilenameInputs : \E f \in {Strip(raw)} :
       /\ filename' = f
       /\ calls' = Append(calls, "prompt_filename")
       /\ IF Missing(f)
            THEN Abort("no_filename")
            ELSE pc' = "Fetching" /\ UNCHANGED <<stdout, exit_status>>
  /\ UNCHANGED <<url, vid, langs, primary, captions, transcript, transcript_list,
                 success_count, files, given, probes>>

\* Line 148, left operand: fetch_with_yta(vid, langs).  A true result is the
\* value of the `or`; a false one sends control to the right operand.
FetchPrimary(transcripts) ==
  /\ pc = "Fetching"
  /\ calls' = Append(calls, "primary")
  /\ \E lib \in LibraryOutcomes(transcripts) : \E r \in {fetch_with_yta(lib)} :
       IF r.does = "raise"
         THEN Abort("traceback") /\ UNCHANGED <<primary, transcript>>
         ELSE /\ primary' = r.value
              /\ IF Truthy(r.value)
                   THEN transcript' = r.value /\ pc' = "CheckTranscript"
                   ELSE transcript' = transcript /\ pc' = "Fallback"
              /\ UNCHANGED <<stdout, exit_status>>
  /\ UNCHANGED <<url, vid, filename, langs, captions, transcript_list,
                 success_count, files, given, probes>>

\* Line 148, right operand: fetch_with_pytube(vid, langs).  pytube may raise
\* while loading the video page or its caption list (lines 44-46, before any
\* code is looked up), and lines 48-53 may raise on the track that was found
\* (while fetching or parsing its XML); either way main() ends in a traceback.
FetchSecondary(codes) ==
  /\ pc = "Fallback"
  /\ calls' = Append(calls, "secondary")
  /\ \/ /\ Abort("traceback")
        /\ UNCHANGED <<captions, transcript, probes>>
     \/ \E caps \in CaptionSets(codes) :
          /\ captions' = caps
          /\ probes' = PytubeProbes(langs, caps)
          /\ \/ /\ transcript' = fetch_with_pytube(langs, caps)
                /\ pc' = "CheckTranscript"
                /\ UNCHANGED <<stdout, exit_status>>
             \/ /\ FirstHit(Candidates(langs), caps) # 0
                /\ Abort("traceback")
                /\ UNCHANGED transcript
  /\ UNCHANGED <<url, vid, filename, langs, primary, transcript_list,
                 success_count, files, given>>

\* Lines 149-168: leave when there is no transcript, else normalise it.
CheckTranscript ==
  /\ pc = "CheckTranscript"
  /\ IF IsNone(transcript)
       THEN Abort("no_transcript") /\ UNCHANGED <<transcript_list, success_count>>
       ELSE /\ success_count' = 0
            /\ transcript_list' = Normalize(transcript)
            /\ pc' = "WriteJson"
            /\ UNCHANGED <<stdout, exit_status>>
  /\ UNCHANGED <<url, vid, filename, langs, primary, captions, transcript,
                 files, given, calls, probes>>

\* A writer call made by main(): the writer is handed transcript_list; a true
\* result counts; an exception the writer let through would end main().
WriterStep(here, ext, result, next) ==
  /\ pc = here
  /\ calls' = Append(calls, ext)
  /\ given' = [given EXCEPT ![ext] = transcript_list]
  /\ files' = [files EXCEPT ![ext] = result.file]
  /\ IF result.raised
       THEN Abort("traceback") /\ UNCHANGED success_count
       ELSE /\ success_count' = IF result.ret THEN success_count + 1 ELSE success_count
            /\ pc' = next
            /\ UNCHANGED <<stdout, exit_status>>
  /\ UNCHANGED <<url, vid, filename, langs, primary, captions, transcript,
                 transcript_list, probes>>

\* Lines 170-178
WriteJson ==
  \E env \in WriterEnv : \E result \in {save_as_json(transcript_list, env)} :
    WriterStep("WriteJson", "json", result, "WriteTxt")

\* Lines 180-184
WriteTxt ==
  \E env \in WriterEnv : \E result \in {save_as_txt(transcript_list, env)} :
    WriterStep("WriteTxt", "txt", result, "WritePdf")

\* Lines 186-190
WritePdf ==
  \E env \in PdfEnv : \E result \in {save_as_pdf(transcript_list, env)} :
    WriterStep("WritePdf", "pdf", result, "Report")

\* Lines 192-198
Report ==
  /\ pc = "Report"
  /\ \E o \in {Outcome(success_count)} :
       /\ pc' = o.pc
       /\ exit_status' = <<o.status>>
       /\ stdout' = Append(stdout, [msg |-> o.msg, n |-> o.n])
  /\ UNCHANGED <<url, vid, filename, langs, primary, captions, transcript,
                 transcript_list, success_count, files, given, calls, probes>>

\* main() over every URL shape, with the transcripts of the documented scenario.
ScenarioTranscripts == {<<>>, <<Hello, World>>}

Next ==
  \/ PromptUrl(UrlInputs)
  \/ PromptFilename
  \/ FetchPrimary(ScenarioTranscripts)
  \/ FetchSecondary(WithAuto(LangCodes))
  \/ CheckTranscript
  \/ WriteJson
  \/ WriteTxt
  \/ WritePdf
  \/ Report

Spec == Init /\ [][Next]_vars

\* main() on one URL, over every transcript of up to MaxSegs segments.
ScenarioUrl == <<"h","t","t","p","s",":","/","/","y","o","u","t","u",".","b","e","/",
                 "d","Q","w","4","w","9","W","g","X","c","Q">>

NextWriters ==
  \/ PromptUrl({ScenarioUrl})
  \/ PromptFilename
  \/ FetchPrimary(SeqsUpTo(Segments, MaxSegs))
  \/ FetchSecondary(WithAuto({En}))
  \/ CheckTranscript
  \/ WriteJson
  \/ WriteTxt
  \/ WritePdf
  \/ Report

SpecWriters == Init /\ [][NextWriters]_vars

\* fetch_with_pytube on its own, over every language preference of up to
\* MaxLangs codes and every set of caption tracks.
PytubeCodes == {En, Fr, De}

InitPytube ==
  /\ pc = "Fallback"
  /\ langs \in (SeqsUpTo(PytubeCodes, MaxLangs) \ {<<>>})
  /\ url = <<>> /\ vid = <<>> /\ filename = <<>>
  /\ primary = None /\ captions = <<>> /\ transcript = None
  /\ transcript_list = <<>> /\ success_count = 0
  /\ files = NoFiles
  /\ given = [json |-> <<>>, txt |-> <<>>, pdf |-> <<>>]
  /\ calls = <<>> /\ probes = <<>> /\ stdout = <<>> /\ exit_status = <<>>

NextPytube == FetchSecondary(WithAuto(PytubeCodes))

SpecPytube == InitPytube /\ [][NextPytube]_vars

-----------------------------------------------------------------------------
(* Reading the output files back, as the properties below do *)

\* The lines a text-mode reader finds in a file: its pieces between newlines,
\* the piece after the last newline counting only when it is not empty.
TxtLines(content) ==
  With(Split(content, "\n"), LAMBDA ps :
    IF ps[Len(ps)] = <<>> THEN SubSeq(ps, 1, Len(ps) - 1) ELSE ps)

\* The first index >= i of s that holds no JSON whitespace (Len(s) + 1: none).
JsonWhitespace == {" ", "\t", "\n", "\r"}
SkipWs(s, i) ==
  With({j \in i..Len(s) : s[j] \notin JsonWhitespace},
       LAMBDA rest : IF rest = {} THEN Len(s) + 1 ELSE SetMin(rest))

\* The character an escape \c stands for.
JsonUnescapeChar(c) ==
  CASE c = "n" -> "\n"
    [] c = "r" -> "\r"
    [] c = "t" -> "\t"
    [] c = "f" -> "\f"
    [] c = "b" -> Chr(8)
    [] OTHER   -> c

\* The character an escape \uXXXX stands for, its digits starting at index i.
JsonUnicodeAt(s, i) ==
  Chr(4096 * HexVal(s[i]) + 256 * HexVal(s[i + 1]) + 16 * HexVal(s[i + 2]) + HexVal(s[i + 3]))

\* The string whose characters start at index i (after the opening quote):
\* its value and the index after its closing quote.
RECURSIVE JsonStringAt(_, _)
JsonStringAt(s, i) ==
  IF s[i] = "\"" THEN [v |-> <<>>, next |-> i + 1]
  ELSE IF s[i] = "\\" /\ s[i + 1] = "u"
    THEN With(JsonStringAt(s, i + 6),
              LAMBDA r : [v |-> <<JsonUnicodeAt(s, i + 2)>> \o r.v, next |-> r.next])
  ELSE IF s[i] = "\\"
    THEN With(JsonStringAt(s, i + 2),
              LAMBDA r : [v |-> <<JsonUnescapeChar(s[i + 1])>> \o r.v, next |-> r.next])
    ELSE With(JsonStringAt(s, i + 1),
              LAMBDA r : [v |-> <<s[i]>> \o r.v, next |-> r.next])

NumberChars == {"0", "1", "2", "3", "4", "5", "6", "7", "8", "9", "."}

\* The value starting at index i, a string or a number: what it is, its value
\* and the index after it.
JsonValueAt(s, i) ==
  IF s[i] = "\""
    THEN With(JsonStringAt(s, i + 1),
              LAMBDA r : [isnum |-> FALSE, str |-> r.v, num |-> 0, next |-> r.next])
    ELSE With(SkipWs(s, i),
              LAMBDA b : With(SetMin({j \in b..(Len(s) + 1) :
                                        j = Len(s) + 1 \/ s[j] \notin NumberChars}),
                LAMBDA e : [isnum |-> TRUE, str |-> <<>>,
                            num |-> float(SubSeq(s, b, e - 1)), next |-> e]))

\* The members of an object from index i on (after "{" or ","), in order, and
\* the index after the object's "}".
RECURSIVE JsonMembersAt(_, _)
JsonMembersAt(s, i) ==
  With(SkipWs(s, i), LAMBDA a :
    IF s[a] = "}" THEN [v |-> <<>>, next |-> a + 1]
    ELSE With(JsonStringAt(s, a + 1), LAMBDA key :
         With(SkipWs(s, SkipWs(s, key.next) + 1), LAMBDA b :
         With(JsonValueAt(s, b), LAMBDA val :
         With(SkipWs(s, val.next), LAMBDA c :
         With(JsonMembersAt(s, IF s[c] = "," THEN c + 1 ELSE c), LAMBDA r :
           [v |-> <<[key |-> key.v, isnum |-> val.isnum, str |-> val.str,
                     num |-> val.num]>> \o r.v,
            next |-> r.next]))))))

\* The objects of an array from index i on (after "[" or ","), in order.
RECURSIVE JsonObjectsAt(_, _)
JsonObjectsAt(s, i) ==
  With(SkipWs(s, i), LAMBDA a :
    IF s[a] = "]" THEN <<>>
    ELSE With(JsonMembersAt(s, a + 1), LAMBDA obj :
         With(SkipWs(s, obj.next), LAMBDA c :
           <<obj.v>> \o JsonObjectsAt(s, IF s[c] = "," THEN c + 1 ELSE c))))

\* json.load of a file holding an array of objects whose values are strings
\* and numbers: the objects, each the sequence of its members.
json_load(s) == With(SkipWs(s, 1), LAMBDA a : JsonObjectsAt(s, a + 1))

\* The members json.load finds for a segment dict.
SegmentMembers(seg) ==
  <<[key |-> TextKey, isnum |-> FALSE, str |-> seg.text, num |-> 0],
    [key |-> StartKey, isnum |-> TRUE, str |-> <<>>, num |-> seg.start],
    [key |-> DurationKey, isnum |-> TRUE, str |-> <<>>, num |-> seg.duration]>>

-----------------------------------------------------------------------------
(* Properties *)

Phase(p) ==
  CASE p \in {"Fetching", "Fallback", "CheckTranscript"} -> "Fetching"
    [] p \in {"WriteJson", "WriteTxt", "WritePdf", "Report"} -> "Writing"
    [] OTHER -> p

Terminal == pc \in {"Done", "Aborted"}

Writers == <<"json", "txt", "pdf">>
WriterCalls == SelectSeq(calls, LAMBDA c : c \in {"json", "txt", "pdf"})
ProviderCalls == SelectSeq(calls, LAMBDA c : c \in {"primary", "secondary"})
IsPrefix(p, s) == Len(p) <= Len(s) /\ \A i \in 1..Len(p) : p[i] = s[i]
LastMsg == IF stdout = <<>> THEN "" ELSE stdout[Len(stdout)].msg
Successes == Cardinality({e \in {"json", "txt", "pdf"} : files[e].state = "written"})

\* The secondary provider raised: the run ended in a traceback right after
\* its call.
SecondaryRaised ==
  /\ pc = "Aborted" /\ LastMsg = "traceback"
  /\ calls # <<>> /\ calls[Len(calls)] = "secondary"

\* The secondary provider returned (it did not raise).
SecondaryReturned == "secondary" \in {calls[i] : i \in 1..Len(calls)} /\ ~SecondaryRaised

\* C1: the provider chain is tri-state: the primary is called first and once;
\* the secondary is called, once, only after the primary soft-missed (returned
\* None); when the primary returned a transcript, of any length, the secondary
\* is not called and the writers receive the primary's segments; when the
\* primary raised, neither the secondary nor any writer runs.
C1_TriStateChain ==
  /\ IsPrefix(ProviderCalls, <<"primary", "secondary">>)
  /\ "secondary" \in {calls[i] : i \in 1..Len(calls)} => IsNone(primary)
  /\ ~IsNone(primary) =>
       \A i \in 1..Len(WriterCalls) : given[WriterCalls[i]] = Normalize(primary)
  /\ (LastMsg = "traceback" /\ calls[Len(calls)] = "primary") =>
       ProviderCalls = <<"primary">> /\ WriterCalls = <<>>

\* The primary soft-missed and the secondary returned without finding a track.
C2_NoCandidate ==
  /\ IsNone(primary)
  /\ SecondaryReturned
  /\ \A c \in {l : l \in {langs[i] : i \in 1..Len(langs)}} \cup {AutoCode(langs[1])} :
       c \notin DOMAIN captions

\* C2: when the primary soft-missed and the secondary found no caption track
\* for any candidate code, the fetch result is None, the only step left leads
\* to Aborted with a non-zero exit status, and no output file exists at any
\* point of the run.
C2_NoTranscriptNoFiles ==
  /\ [](C2_NoCandidate =>
          /\ IsNone(transcript)
          /\ pc \in {"CheckTranscript", "Aborted"}
          /\ pc = "Aborted" => exit_status # <<>> /\ exit_status[1] # 0
          /\ files = NoFiles
          /\ WriterCalls = <<>>)
  /\ [][(C2_NoCandidate /\ pc = "CheckTranscript") => pc' = "Aborted"]_vars

C2_Witness == C2_NoCandidate /\ pc = "Aborted" /\ LastMsg = "no_transcript"

\* C3: once main() is writing, the three writers are called once each in the
\* order json, txt, pdf whatever each one's outcome: the writer calls made so
\* far are always a prefix of that order, the run never ends between two
\* writers, and no writer lets an exception out.
C3_AllWritersRun ==
  /\ IsPrefix(WriterCalls, Writers)
  /\ pc = "WriteJson" => WriterCalls = <<>>
  /\ pc = "WriteTxt" => WriterCalls = <<"json">>
  /\ pc = "WritePdf" => WriterCalls = <<"json", "txt">>
  /\ pc = "Report" => WriterCalls = Writers
  /\ (Terminal /\ WriterCalls # <<>>) => WriterCalls = Writers /\ LastMsg # "traceback"

C3_Witness ==
  /\ pc = "Done"
  /\ files["json"].state # "written"
  /\ files["txt"].state # "written"
  /\ files["pdf"].state = "written"
  /\ WriterCalls = Writers

\* C4: when writing has finished, the tally is the number of writers that
\* succeeded, and it decides the outcome: 0 gives Aborted with exit status 1;
\* 1 or 2 give Done, exit status 0 and the partial message with the tally;
\* 3 gives Done, exit status 0 and the full-success message.
C4_TallyDecidesOutcome ==
  /\ Phase(pc) = "Writing" => success_count = Successes
  /\ (Terminal /\ WriterCalls = Writers) =>
       /\ success_count = Successes
       /\ stdout[Len(stdout)].n = Successes
       /\ Successes = 0 => pc = "Aborted" /\ exit_status = <<1>> /\ LastMsg = "failed"
       /\ Successes \in {1, 2} => pc = "Done" /\ exit_status = <<0>> /\ LastMsg = "partial"
       /\ Successes = 3 => pc = "Done" /\ exit_status = <<0>> /\ LastMsg = "all"

C4_Witness ==
  /\ pc = "Done"
  /\ files["json"].state = "written"
  /\ files["txt"].state = "written"
  /\ files["pdf"].state # "written"
  /\ stdout[Len(stdout)] = [msg |-> "partial", n |-> 2]
  /\ exit_status = <<0>>

\* C5: fetch_with_pytube looks codes up in the order of the language
\* preference followed by the one code "a." + first language; it stops at the
\* first code that has a track and returns that track's segments, so a track
\* in any preferred language wins over the auto-caption track; when no
\* candidate has a track it has tried them all and returns None.
C5_ProbeOrder ==
  /\ probes # <<>> =>
       /\ Len(probes) <= Len(langs) + 1
       /\ \A i \in 1..Len(probes) :
            probes[i] = IF i <= Len(langs) THEN langs[i] ELSE AutoCode(langs[1])
       /\ \A i \in 1..(Len(probes) - 1) : probes[i] \notin DOMAIN captions
       /\ Len(probes) <= Len(langs) => probes[Len(probes)] \in DOMAIN captions
       /\ (\E i \in 1..Len(langs) : langs[i] \in DOMAIN captions) =>
            Len(probes) <= Len(langs)
       /\ (langs = <<En>> /\ DOMAIN captions = {En, AutoCode(En)}) =>
            probes = <<En>>
  /\ SecondaryReturned =>
       /\ probes # <<>>
       /\ IF IsNone(transcript)
            THEN Len(probes) = Len(langs) + 1 /\ probes[Len(probes)] \notin DOMAIN captions
            ELSE /\ probes[Len(probes)] \in DOMAIN captions
                 /\ transcript = List(ParseCaptionXml(captions[probes[Len(probes)]]))
       /\ (\E i \in 1..Len(langs) : langs[i] \in DOMAIN captions) => ~IsNone(transcript)
       /\ (langs = <<En>> /\ DOMAIN captions = {En, AutoCode(En)}) =>
            transcript = List(ParseCaptionXml(TrackXml(En)))

C5_Witness ==
  /\ SecondaryReturned
  /\ langs = <<Fr, En>>
  /\ DOMAIN captions = {En, AutoCode(Fr)}
  /\ probes = <<Fr, En>>
  /\ transcript = List(ParseCaptionXml(TrackXml(En)))

\* main() went past the URL prompt with an identifier.
UrlAccepted == pc = "AwaitingFilename" \/ "prompt_filename" \in {calls[i] : i \in 1..Len(calls)}

\* C6: for every non-empty URL, video_id_from_url either yields an identifier
\* of exactly 11 characters out of letters, digits, "_" and "-" that the URL
\* holds, or fails, and then main() ends in Aborted with a non-zero exit
\* status without having prompted for a filename.
C6_IdOrInvalidUrl ==
  (pc # "AwaitingUrl" /\ url # <<>>) =>
    IF UrlAccepted
      THEN /\ Len(vid) = IdLength
           /\ \A i \in 1..Len(vid) : IsIdChar(vid[i])
           /\ Contains(url, vid)
      ELSE pc = "Aborted" /\ exit_status = <<1>> /\ LastMsg = "invalid_url"

\* The moves between phases the orchestrator's state machine allows.
PhaseSteps ==
  {<<"AwaitingUrl", "AwaitingFilename">>, <<"AwaitingUrl", "Aborted">>,
   <<"AwaitingFilename", "Fetching">>, <<"AwaitingFilename", "Aborted">>,
   <<"Fetching", "Fetching">>, <<"Fetching", "Writing">>, <<"Fetching", "Aborted">>,
   <<"Writing", "Writing">>, <<"Writing", "Done">>, <<"Writing", "Aborted">>}

\* An input main() must refuse: an empty or rejected URL, an empty filename.
RejectedInput ==
  \/ pc # "AwaitingUrl" /\ (url = <<>> \/ ~video_id_from_url(url).ok)
  \/ "prompt_filename" \in {calls[i] : i \in 1..Len(calls)} /\ filename = <<>>

PhaseStep == <<Phase(pc), Phase(pc')>> \in PhaseSteps

\* C7: main() moves only forward through AwaitingUrl, AwaitingFilename,
\* Fetching, Writing, Done, with Aborted the only other end; an empty URL, a
\* URL video_id_from_url rejects or an empty filename ends it in Aborted with
\* a non-zero exit status before any provider call or file write; a provider
\* is called only after a URL was accepted and a non-empty filename given, and
\* a file is written only after a transcript was obtained.
C7_StateOrder ==
  /\ [][PhaseStep]_vars
  /\ [](RejectedInput =>
          /\ pc = "Aborted" /\ exit_status # <<>> /\ exit_status[1] # 0
          /\ ProviderCalls = <<>> /\ WriterCalls = <<>> /\ files = NoFiles)
  /\ [](ProviderCalls # <<>> =>
          /\ url # <<>> /\ video_id_from_url(url).ok /\ vid = video_id_from_url(url).v
          /\ filename # <<>>
          /\ IsPrefix(<<"prompt_url", "prompt_filename", "primary">>, calls))
  /\ []((files # NoFiles \/ WriterCalls # <<>>) =>
          ~IsNone(transcript) /\ ProviderCalls # <<>>)

C7_Witness ==
  /\ pc = "Aborted"
  /\ url # <<>>
  /\ "prompt_filename" \in {calls[i] : i \in 1..Len(calls)}
  /\ filename = <<>>
  /\ ProviderCalls = <<>>

\* C8: a successful plain-text write leaves a file of exactly N lines for a
\* transcript of N segments, line i being the text of segment i.
C8_TxtLines ==
  files["txt"].state = "written" =>
    TxtLines(files["txt"].text) = [i \in 1..Len(given["txt"]) |-> given["txt"][i].text]

\* transcript_list has been built.
Normalised == Phase(pc) = "Writing" \/ WriterCalls # <<>>

\* C9: for either shape of provider result, the normalised sequence has the
\* provider's segments, as many and in the same order, each with exactly the
\* fields text, start and duration and the provider's values; the JSON file is
\* an array of objects with exactly those three members, and reading it back
\* gives the same segments; every writer is handed that same sequence.
C9_NormalizeRoundTrip ==
  Normalised =>
    /\ transcript.kind \in {"FetchedTranscript", "list"}
    /\ Len(transcript_list) = Len(transcript.segs)
    /\ \A i \in 1..Len(transcript_list) :
         /\ DOMAIN transcript_list[i] = {"text", "start", "duration"}
         /\ transcript_list[i].text = transcript.segs[i].text
         /\ transcript_list[i].start = transcript.segs[i].start
         /\ transcript_list[i].duration = transcript.segs[i].duration
    /\ \A i \in 1..Len(WriterCalls) : given[WriterCalls[i]] = transcript_list
    /\ files["json"].state = "written" =>
         json_load(files["json"].text)
           = [i \in 1..Len(transcript.segs) |-> SegmentMembers(transcript.segs[i])]

C9_Witness ==
  /\ pc = "Done"
  /\ transcript.kind = "FetchedTranscript"
  /\ Len(transcript.segs) = 2
  /\ \E i \in 1..2 : "\"" \in {transcript.segs[i].text[k] : k \in 1..Len(transcript.segs[i].text)}
  /\ files["json"].state = "written"
  /\ WriterCalls = Writers

\* The label of a paragraph: the digits between "[" and ":" and those between
\* ":" and "]", and the text after "] ".
LabelOf(p) ==
  With(Find(p, {":"}, 1), LAMBDA c :
  With(Find(p, {"]"}, 1), LAMBDA e :
    [open |-> p[1], mm |-> SubSeq(p, 2, c - 1), ss |-> SubSeq(p, c + 1, e - 1),
     sep |-> SubSeq(p, e + 1, e + 1), text |-> From(p, e + 2)]))

AllDigits(ds) == \A i \in 1..Len(ds) : IsDigit(ds[i])

Paragraphs == SubSeq(files["pdf"].story, 3, Len(files["pdf"].story))

\* C10 as stated: one paragraph per segment, in order, each labelled [MM:SS]
\* with MM = floor(s / 60) and SS = floor(s mod 60), both of exactly two
\* digits, for every start s.
C10_TwoDigitLabel ==
  files["pdf"].state = "written" =>
    /\ Len(Paragraphs) = Len(given["pdf"])
    /\ \A i \in 1..Len(Paragraphs) :
         With(LabelOf(Paragraphs[i].text), LAMBDA l :
           /\ AllDigits(l.mm) /\ AllDigits(l.ss)
           /\ Len(l.mm) = 2 /\ Len(l.ss) = 2
           /\ DecimalValue(l.mm) = given["pdf"][i].start \div 600
           /\ DecimalValue(l.ss) = (given["pdf"][i].start \div 10) % 60)

\* C10, amended: one paragraph per segment, in order, each labelled [M:SS]
\* with M = floor(s / 60) written with at least two digits (exactly two below
\* 6000 s, no leading zero beyond that) and SS = floor(s mod 60) written with
\* exactly two digits, 0 <= SS <= 59, never rounded up; the segment's text
\* follows the label.
C10_LabelFloor ==
  files["pdf"].state = "written" =>
    /\ Len(Paragraphs) = Len(given["pdf"])
    /\ \A i \in 1..Len(Paragraphs) :
         With(LabelOf(Paragraphs[i].text), LAMBDA l :
           /\ Paragraphs[i].kind = "Paragraph"
           /\ l.open = "[" /\ l.sep = <<" ">> /\ l.text = given["pdf"][i].text
           /\ AllDigits(l.mm) /\ AllDigits(l.ss)
           /\ Len(l.ss) = 2
           /\ Len(l.mm) >= 2
           /\ given["pdf"][i].start < 60000 => Len(l.mm) = 2
           /\ Len(l.mm) > 2 => l.mm[1] # "0"
           /\ DecimalValue(l.mm) = given["pdf"][i].start \div 600
           /\ DecimalValue(l.ss) = (given["pdf"][i].start \div 10) % 60
           /\ DecimalValue(l.ss) \in 0..59)
    /\ \A i \in 1..Len(Paragraphs) :
         /\ given["pdf"][i].start \in {0, 12} =>
              SubSeq(Paragraphs[i].text, 1, 7)
                = <<"[", "0", "0", ":", "0", Chr(48 + given["pdf"][i].start \div 10), "]">>
         /\ given["pdf"][i].start = 599 =>
              SubSeq(Paragraphs[i].text, 1, 7) = <<"[", "0", "0", ":", "5", "9", "]">>

C10_Witness ==
  /\ files["pdf"].state = "written"
  /\ Len(given["pdf"]) = 2
  /\ given["pdf"][1].start = 599
  /\ given["pdf"][2].start = 60000
  /\ SubSeq(Paragraphs[2].text, 1, 8) = <<"[", "1", "0", "0", ":", "0", "0", "]">>

====
